---- MODULE Spec2Model ----
(***************************************************************************)
(* bpf/lib/time.h: the two time conversion macros of Cilium's datapath.    *)
(*                                                                         *)
(*   bpf_ktime_get_sec()    ({ __u64 __x = ktime_get_ns() / NSEC_PER_SEC;  *)
(*                             __x; })                                     *)
(*   bpf_sec_to_jiffies(s)  ({ __u64 __x = (s) * KERNEL_HZ; __x; })        *)
(*                                                                         *)
(* An unsigned C integer is a little-endian sequence of 8-bit limbs, one   *)
(* limb per byte of its type (4 limbs: 32 bits, 8 limbs: 64 bits), so the  *)
(* arithmetic keeps the width the C types give it.  Several execution      *)
(* contexts expand the macros concurrently, one C statement at a time;     *)
(* every context has its own temporaries, and the monotonic clock is the   *)
(* only thing they share.                                                  *)
(*                                                                         *)
(* The argument of bpf_sec_to_jiffies is an unsigned expression of 32 or   *)
(* 64 bits.  KERNEL_HZ, which the build's configuration defines, is a      *)
(* positive constant of a 32-bit or a 64-bit type; beside an unsigned      *)
(* operand of at least its rank it is converted to that operand's type     *)
(* with its value unchanged.                                               *)
(*                                                                         *)
(* State: clock is the monotonic clock in nanoseconds; KERNEL_HZ is the    *)
(* build's constant; for each context, pc is its place in the macro it     *)
(* expands, __x the macro's temporary, ret the value of its last completed *)
(* expansion, s the value its argument expression had, t the value its     *)
(* call of ktime_get_ns() returned, and reads and evals the numbers of     *)
(* clock reads and argument evaluations of the expansion.                  *)
(***************************************************************************)
EXTENDS Naturals, Sequences

VARIABLES clock, KERNEL_HZ, pc, s, t, __x, ret, reads, evals

vars == <<clock, KERNEL_HZ, pc, s, t, __x, ret, reads, evals>>

(* Number of execution contexts that use the macros concurrently. *)
NumCtx == 2

Ctx == 1..NumCtx

(***************************************************************************)
(* Unsigned integers as limb sequences.                                    *)
(***************************************************************************)

(* Bytes of a 64-bit type (__u64, unsigned long long). *)
W64 == 8

(* Bytes of a 32-bit type (__u32, unsigned int, int). *)
W32 == 4

Max(a, b) == IF a >= b THEN a ELSE b

RECURSIVE Limbs(_, _)
(* The k-limb representation of the natural number n (n below 2^31). *)
Limbs(n, k) == IF k = 0 THEN <<>> ELSE <<n % 256>> \o Limbs(n \div 256, k - 1)

(* C's conversion of an unsigned value to an unsigned type of k bytes:     *)
(* the high limbs are dropped (reduction modulo 2^(8k)) or zero filled.    *)
Conv(a, k) == [i \in 1..k |-> IF i <= Len(a) THEN a[i] ELSE 0]

RECURSIVE ToNat(_)
(* The natural number a limb sequence stands for (only for values that fit *)
(* the model checker's integers).                                          *)
ToNat(a) == IF a = <<>> THEN 0 ELSE Head(a) + 256 * ToNat(Tail(a))

RECURSIVE ColSum(_, _, _, _)
(* Sum of the limb products a[i] * b[k + 1 - i] of column k, from i up. *)
ColSum(a, b, k, i) ==
  IF i > Len(a) \/ i > k THEN 0
  ELSE (IF k + 1 - i <= Len(b) THEN a[i] * b[k + 1 - i] ELSE 0)
         + ColSum(a, b, k, i + 1)

RECURSIVE MulCols(_, _, _, _, _)
(* Schoolbook multiplication, columns k..n; columns above n are never      *)
(* formed, which is the reduction modulo 2^(8n) of unsigned arithmetic.    *)
MulCols(a, b, k, n, carry) ==
  IF k > n THEN <<>>
  ELSE LET sum == ColSum(a, b, k, 1) + carry
       IN  <<sum % 256>> \o MulCols(a, b, k + 1, n, sum \div 256)

(* A saturating product: what a checked multiplication would give. *)
MulUSaturating(a, b, n) ==
  LET full == MulCols(Conv(a, n), Conv(b, n), 1, 2 * n, 0)
  IN  IF \E i \in (n + 1)..(2 * n) : full[i] # 0
      THEN [i \in 1..n |-> 255]
      ELSE Conv(full, n)

(* a * b in an unsigned type of n bytes: both operands are converted to    *)
(* the type and the product is reduced modulo 2^(8n).                      *)
MulU(a, b, n) == MulCols(Conv(a, n), Conv(b, n), 1, n, 0)

(* a < b for unsigned values of one width. *)
LtU(a, b) ==
  \E i \in 1..Len(a) :
    /\ a[i] < b[i]
    /\ \A j \in (i + 1)..Len(a) : a[j] = b[j]

(* One step of restoring division: the dividend's next bit is brought down *)
(* into the remainder st.r, the divisor d is subtracted if it fits, and    *)
(* the quotient st.q gains the bit that says so.  d is positive and below  *)
(* 2^30, so that 2 * r + 1 stays below 2^31.                               *)
DivBit(st, bit, d) ==
  LET r2 == 2 * st.r + bit
  IN  IF r2 >= d THEN [r |-> r2 - d, q |-> 2 * st.q + 1]
                 ELSE [r |-> r2, q |-> 2 * st.q]

RECURSIVE DivByte(_, _, _, _)
(* Restoring division over one limb of the dividend: the remainder and the *)
(* quotient bits after its bits 7..i, most significant first, starting     *)
(* from the remainder r of the limbs above.                                *)
DivByte(limb, d, i, r) ==
  IF i = 8 THEN [r |-> r, q |-> 0]
  ELSE DivBit(DivByte(limb, d, i + 1, r), (limb \div (2 ^ i)) % 2, d)

RECURSIVE DivLimbs(_, _, _)
(* Restoring division of a by d over the limbs Len(a)..i, most significant *)
(* first: the remainder so far and the quotient's limbs i..Len(a).  The    *)
(* remainder carried down from the limbs above is always below d.          *)
DivLimbs(a, d, i) ==
  IF i > Len(a) THEN [r |-> 0, q |-> <<>>]
  ELSE LET above == DivLimbs(a, d, i + 1)
           rem   == above.r
           here  == DivByte(a[i], d, 0, rem)
       IN  CASE rem < d -> [r |-> here.r, q |-> <<here.q>> \o above.q]

(* The remainder in place of the quotient: '%' written for '/'. *)
DivURemainder(a, d) ==
  LET q == DivLimbs(a, d, 1).q
      p == MulCols(q, Limbs(d, W64), 1, Len(a), 0)
      RECURSIVE Sub(_, _)
      Sub(i, borrow) ==
        IF i > Len(a) THEN <<>>
        ELSE LET v == a[i] - p[i] - borrow + 256
             IN  <<v % 256>> \o Sub(i + 1, IF v < 256 THEN 1 ELSE 0)
  IN  Sub(1, 0)

(* Division that rounds to the nearest whole number instead of truncating. *)
DivURounding(a, d) ==
  LET half == Limbs(d \div 2, Len(a))
      RECURSIVE Add(_, _)
      Add(i, carry) ==
        IF i > Len(a) THEN <<>>
        ELSE LET v == a[i] + half[i] + carry
             IN  <<v % 256>> \o Add(i + 1, v \div 256)
  IN  DivLimbs(Add(1, 0), d, 1).q

(* a / d, unsigned, truncating: the quotient has the width of a. *)
DivU(a, d) == DivLimbs(a, d, 1).q

(***************************************************************************)
(* The macros' constants and values.                                       *)
(***************************************************************************)

(* #define NSEC_PER_SEC (1000ULL * 1000ULL * 1000UL): the product is       *)
(* formed left to right in unsigned long long.                             *)
NSEC_PER_SEC ==
  MulU(MulU(Limbs(1000, W64), Limbs(1000, W64), W64), Limbs(1000, W64), W64)

Zero64 == Limbs(0, W64)

(* No argument: the context is not expanding bpf_sec_to_jiffies. *)
NoArg == [val |-> <<>>, w |-> 0]

(* Values the monotonic clock is observed at, in nanoseconds: 0,           *)
(* 999999999, 1000000000, 2500000000 and 2^64 - 1.                         *)
ClockSamples ==
  { Zero64,
    Limbs(999999999, W64),
    Limbs(1000000000, W64),
    <<0, 249, 2, 149, 0, 0, 0, 0>>,
    <<255, 255, 255, 255, 255, 255, 255, 255>> }

(* Argument expressions handed to bpf_sec_to_jiffies, with the width of    *)
(* their type: 0 and 20000000 as __u32; 5, 2^63 and 2^64 - 1 as __u64.     *)
Args ==
  { [val |-> Limbs(0, W32), w |-> W32],
    [val |-> Limbs(20000000, W32), w |-> W32],
    [val |-> Limbs(5, W64), w |-> W64],
    [val |-> <<0, 0, 0, 0, 0, 0, 0, 128>>, w |-> W64],
    [val |-> <<255, 255, 255, 255, 255, 255, 255, 255>>, w |-> W64] }

(* Build configurations of KERNEL_HZ: its value n and the width of its     *)
(* type.  1, 2 and 250 as a 32-bit constant, 250 as a 64-bit constant.     *)
HzConfigs ==
  { [n |-> 1, w |-> W32],
    [n |-> 2, w |-> W32],
    [n |-> 250, w |-> W32],
    [n |-> 250, w |-> W64] }

(* ktime_get_ns(): the current value of the monotonic clock. *)
ktime_get_ns == clock

(* The quotient rounded to the nearest second. *)
KtimeDivRounding(tv) == DivURounding(tv, ToNat(NSEC_PER_SEC))

(* The nanoseconds within the second. *)
KtimeDivRemainder(tv) == DivURemainder(tv, ToNat(NSEC_PER_SEC))

(* ktime_get_ns() / NSEC_PER_SEC for the clock value tv: an unsigned       *)
(* 64-bit division.                                                        *)
KtimeDiv(tv) == DivU(tv, ToNat(NSEC_PER_SEC))

(* KtimeDiv, worked out once for every value of the clock. *)
KtimeQuotMemo == [v \in ClockSamples |-> KtimeDiv(v)]

(* ktime_get_ns() / NSEC_PER_SEC for the clock value tv. *)
KtimeQuot(tv) == KtimeQuotMemo[tv]

(* The product always formed in 64 bits, as if (s) were cast to __u64. *)
CommonWidthWide(a, h) == W64

(* The product always formed in 32 bits. *)
CommonWidthNarrow(a, h) == W32

(* Width of the common type of the operands a and h of '*': the usual      *)
(* arithmetic conversions pick the wider of the two.                       *)
CommonWidth(a, h) == Max(a.w, h.w)

(* A product that saturates at the largest value of its type. *)
TimesHzSaturating(a, h) ==
  Conv(MulUSaturating(a.val, Limbs(h.n, h.w), CommonWidth(a, h)), W64)

(* (s) * KERNEL_HZ for the argument a and the configuration h: the product *)
(* in the common type, then converted to the __u64 it initialises.         *)
TimesHz(a, h) == Conv(MulU(a.val, Limbs(h.n, h.w), CommonWidth(a, h)), W64)

(* TimesHz, worked out once for every argument and configuration. *)
TimesHzMemo == [h \in HzConfigs |-> [a \in Args |-> TimesHz(a, h)]]

(* (s) * KERNEL_HZ under the build's KERNEL_HZ. *)
SecTimesHz(a) == TimesHzMemo[KERNEL_HZ][a]

(* Every context's __x in one place, as a file-scope temporary would be. *)
XSlotShared(c) == 1

(* Where context c keeps the block-scoped temporary __x: in its own frame. *)
XSlot(c) == c

(***************************************************************************)
(* The state machine.                                                      *)
(***************************************************************************)

Init ==
  /\ clock \in ClockSamples
  /\ KERNEL_HZ \in HzConfigs
  /\ pc = [c \in Ctx |-> "idle"]
  /\ s = [c \in Ctx |-> NoArg]
  /\ t = [c \in Ctx |-> Zero64]
  /\ __x = [c \in Ctx |-> Zero64]
  /\ ret = [c \in Ctx |-> Zero64]
  /\ reads = [c \in Ctx |-> 0]
  /\ evals = [c \in Ctx |-> 0]

(* Context c is between two expansions. *)
AtRest(c) == pc[c] \in {"idle", "sec_done", "jif_done"}

(* The external clock advances: it never goes back. *)
Tick ==
  /\ \E v \in ClockSamples :
       /\ LtU(clock, v)
       /\ clock' = v
  /\ UNCHANGED <<KERNEL_HZ, pc, s, t, __x, ret, reads, evals>>

(* bpf_ktime_get_sec(), first statement, with the clock read twice: once   *)
(* for the value kept and once more for the value divided.                 *)
bpf_ktime_get_sec_init_rereads(c) ==
  /\ AtRest(c)
  /\ pc' = [pc EXCEPT ![c] = "sec_ret"]
  /\ t' = [t EXCEPT ![c] = ktime_get_ns]
  /\ reads' = [reads EXCEPT ![c] = 2]
  /\ evals' = [evals EXCEPT ![c] = 0]
  /\ __x' = [__x EXCEPT ![XSlot(c)] = KtimeQuot(ktime_get_ns)]
  /\ s' = [s EXCEPT ![c] = NoArg]
  /\ ret' = [ret EXCEPT ![c] = Zero64]
  /\ UNCHANGED <<clock, KERNEL_HZ>>

(* bpf_ktime_get_sec(), first statement:                                   *)
(*   __u64 __x = ktime_get_ns() / NSEC_PER_SEC;                            *)
(* ktime_get_ns() is called once and its value divided; t and reads record *)
(* the value read and the number of reads of this expansion.               *)
bpf_ktime_get_sec_init(c) ==
  /\ AtRest(c)
  /\ pc' = [pc EXCEPT ![c] = "sec_ret"]
  /\ t' = [t EXCEPT ![c] = ktime_get_ns]
  /\ reads' = [reads EXCEPT ![c] = 1]
  /\ evals' = [evals EXCEPT ![c] = 0]
  /\ __x' = [__x EXCEPT ![XSlot(c)] = KtimeQuot(ktime_get_ns)]
  /\ s' = [s EXCEPT ![c] = NoArg]
  /\ ret' = [ret EXCEPT ![c] = Zero64]
  /\ UNCHANGED <<clock, KERNEL_HZ>>

(* bpf_ktime_get_sec(), second statement: __x; }) is the value of the      *)
(* statement expression, and __x goes out of scope.                        *)
bpf_ktime_get_sec_yield(c) ==
  /\ pc[c] = "sec_ret"
  /\ pc' = [pc EXCEPT ![c] = "sec_done"]
  /\ ret' = [ret EXCEPT ![c] = __x[XSlot(c)]]
  /\ __x' = [__x EXCEPT ![XSlot(c)] = Zero64]
  /\ UNCHANGED <<clock, KERNEL_HZ, s, t, reads, evals>>

(* bpf_sec_to_jiffies(s), first statement:                                 *)
(*   __u64 __x = (s) * KERNEL_HZ;                                          *)
(* the argument expression is evaluated once, to the value a; s and evals  *)
(* record the value and the number of evaluations of this expansion.       *)
bpf_sec_to_jiffies_init(c) ==
  /\ AtRest(c)
  /\ \E a \in Args :
       /\ s' = [s EXCEPT ![c] = a]
       /\ __x' = [__x EXCEPT ![XSlot(c)] = SecTimesHz(a)]
  /\ pc' = [pc EXCEPT ![c] = "jif_ret"]
  /\ evals' = [evals EXCEPT ![c] = 1]
  /\ reads' = [reads EXCEPT ![c] = 0]
  /\ t' = [t EXCEPT ![c] = Zero64]
  /\ ret' = [ret EXCEPT ![c] = Zero64]
  /\ UNCHANGED <<clock, KERNEL_HZ>>

(* bpf_sec_to_jiffies(s), second statement: __x; }) *)
bpf_sec_to_jiffies_yield(c) ==
  /\ pc[c] = "jif_ret"
  /\ pc' = [pc EXCEPT ![c] = "jif_done"]
  /\ ret' = [ret EXCEPT ![c] = __x[XSlot(c)]]
  /\ __x' = [__x EXCEPT ![XSlot(c)] = Zero64]
  /\ UNCHANGED <<clock, KERNEL_HZ, s, t, reads, evals>>

Next ==
  \/ Tick
  \/ \E c \in Ctx : bpf_ktime_get_sec_init(c)
  \/ \E c \in Ctx : bpf_ktime_get_sec_yield(c)
  \/ \E c \in Ctx : bpf_sec_to_jiffies_init(c)
  \/ \E c \in Ctx : bpf_sec_to_jiffies_yield(c)

Spec == Init /\ [][Next]_vars

(***************************************************************************)
(* The mathematics the results are compared with: natural numbers of any   *)
(* size, as limb sequences of any length.                                  *)
(***************************************************************************)

(* a with zero limbs added up to length k. *)
Pad(a, k) == [i \in 1..k |-> IF i <= Len(a) THEN a[i] ELSE 0]

NatLt(a, b) ==
  LET k  == Max(Len(a), Len(b))
      pa == Pad(a, k)
      pb == Pad(b, k)
  IN  \E i \in 1..k :
        /\ pa[i] < pb[i]
        /\ \A j \in (i + 1)..k : pa[j] = pb[j]

NatEq(a, b) ==
  LET k == Max(Len(a), Len(b)) IN Pad(a, k) = Pad(b, k)

NatLeq(a, b) == NatLt(a, b) \/ NatEq(a, b)

RECURSIVE NatTimesFrom(_, _, _, _)
NatTimesFrom(a, n, i, carry) ==
  IF i > Len(a) THEN Limbs(carry, 4)
  ELSE LET v == a[i] * n + carry
       IN  <<v % 256>> \o NatTimesFrom(a, n, i + 1, v \div 256)

(* a times the natural number n (n at most 2^22), exactly. *)
NatTimes(a, n) == NatTimesFrom(a, n, 1, 0)

RECURSIVE NatPlusFrom(_, _, _, _)
NatPlusFrom(a, b, i, carry) ==
  IF i > Len(a) THEN <<carry>>
  ELSE LET v == a[i] + b[i] + carry
       IN  <<v % 256>> \o NatPlusFrom(a, b, i + 1, v \div 256)

(* a + b, exactly. *)
NatPlus(a, b) ==
  LET k == Max(Len(a), Len(b)) IN NatPlusFrom(Pad(a, k), Pad(b, k), 1, 0)

(* a is below 2^64. *)
Fits64(a) == \A i \in 1..Len(a) : i > 8 => a[i] = 0

(* a modulo 2^(8k). *)
NatMod(a, k) == [i \in 1..k |-> IF i <= Len(a) THEN a[i] ELSE 0]

(* q * 1000000000. *)
TimesBillion(q) == NatTimes(NatTimes(NatTimes(q, 1000), 1000), 1000)

(* q = floor(tv / 1000000000): q * 10^9 <= tv < q * 10^9 + 10^9. *)
IsFloorSeconds(tv, q) ==
  LET p == TimesBillion(q)
  IN  /\ NatLeq(p, tv)
      /\ NatLt(tv, NatPlus(p, Limbs(1000000000, 4)))

(* The mathematical product s * KERNEL_HZ, worked out once for every       *)
(* argument and configuration.                                             *)
MathProductMemo ==
  [h \in HzConfigs |-> [a \in Args |-> NatTimes(a.val, h.n)]]

(* The mathematical product s * KERNEL_HZ of context c's expansion. *)
MathProduct(c) == MathProductMemo[KERNEL_HZ][s[c]]

SecDone(c) == pc[c] = "sec_done"

JifDone(c) == pc[c] = "jif_done"

T2500000000 == <<0, 249, 2, 149, 0, 0, 0, 0>>

Pow63 == <<0, 0, 0, 0, 0, 0, 0, 128>>

AllOnes64 == <<255, 255, 255, 255, 255, 255, 255, 255>>

(***************************************************************************)
(* C1.  For every clock value t read, bpf_ktime_get_sec() returns exactly  *)
(* floor(t / 1000000000): NSEC_PER_SEC evaluates to exactly 1000000000,    *)
(* and the fraction of a second is dropped, never rounded (2500000000      *)
(* gives 2, 999999999 gives 0).                                            *)
(***************************************************************************)
C1_FloorSeconds ==
  /\ NSEC_PER_SEC = <<0, 202, 154, 59, 0, 0, 0, 0>>
  /\ ToNat(NSEC_PER_SEC) = 1000000000
  /\ \A c \in Ctx :
       SecDone(c) =>
         /\ IsFloorSeconds(t[c], ret[c])
         /\ t[c] = T2500000000 => ret[c] = Limbs(2, W64)
         /\ t[c] = Limbs(999999999, W64) => ret[c] = Zero64

C1_Witness ==
  \E c \in Ctx : SecDone(c) /\ t[c] = T2500000000 /\ ret[c] = Limbs(2, W64)

(***************************************************************************)
(* C2.  Monotonicity: the clock never goes back, so calls that read it     *)
(* later read no smaller a value; a call that read no smaller a value      *)
(* returns no smaller a number of seconds.  Stated for the completed calls *)
(* of any two contexts, and for a context's previous call and the call it  *)
(* starts next.                                                            *)
(***************************************************************************)
C2_Monotonic ==
  /\ [](\A a, b \in Ctx :
          SecDone(a) /\ SecDone(b) /\ NatLeq(t[a], t[b])
            => NatLeq(ret[a], ret[b]))
  /\ [][\A c \in Ctx :
          SecDone(c) /\ pc'[c] = "sec_ret"
            => NatLeq(t[c], t'[c]) /\ NatLeq(ret[c], __x'[XSlot(c)])]_vars

C2_Witness ==
  \E a, b \in Ctx :
    /\ SecDone(a) /\ SecDone(b)
    /\ NatLt(t[a], t[b])
    /\ NatLt(ret[a], ret[b])

(***************************************************************************)
(* C3.  For all s >= 0 and KERNEL_HZ > 0 whose mathematical product        *)
(* s * KERNEL_HZ is below 2^64, bpf_sec_to_jiffies(s) returns exactly      *)
(* s * KERNEL_HZ as an unsigned 64-bit value.                              *)
(***************************************************************************)
C3_ExactProduct ==
  \A c \in Ctx :
    JifDone(c) /\ KERNEL_HZ.n > 0 /\ Fits64(MathProduct(c))
      => NatEq(ret[c], MathProduct(c))

(***************************************************************************)
(* C4.  When s * KERNEL_HZ exceeds the unsigned 64-bit range the result    *)
(* wraps silently: it is (s * KERNEL_HZ) mod 2^64, and no saturated value; *)
(* in particular bpf_sec_to_jiffies(2^63) with KERNEL_HZ = 2 is 0.         *)
(***************************************************************************)
C4_WrapsModulo64 ==
  \A c \in Ctx :
    JifDone(c) =>
      /\ ~Fits64(MathProduct(c)) => ret[c] = NatMod(MathProduct(c), 8)
      /\ s[c].val = Pow63 /\ KERNEL_HZ.n = 2 => ret[c] = Zero64

C4_Witness ==
  \E c \in Ctx :
    /\ JifDone(c) /\ s[c].val = Pow63 /\ KERNEL_HZ.n = 2
    /\ ~Fits64(MathProduct(c))
    /\ ret[c] = Zero64

(***************************************************************************)
(* C5.  Boundary identities: bpf_sec_to_jiffies(0) is 0 for every          *)
(* KERNEL_HZ, and with KERNEL_HZ = 1 bpf_sec_to_jiffies(s) is s.           *)
(***************************************************************************)
C5_ZeroAndOne ==
  \A c \in Ctx :
    JifDone(c) =>
      /\ NatEq(s[c].val, Zero64) => ret[c] = Zero64
      /\ KERNEL_HZ.n = 1 => NatEq(ret[c], s[c].val)

C5_Witness ==
  \E c \in Ctx :
    JifDone(c) /\ KERNEL_HZ.n = 1 /\ s[c].val = AllOnes64 /\ ret[c] = AllOnes64

(***************************************************************************)
(* C6.  Purity: two invocations of bpf_sec_to_jiffies with the same        *)
(* argument (and the build's KERNEL_HZ) have the same result, whatever     *)
(* was called in between and whatever the clock shows.                     *)
(***************************************************************************)
C6_Pure ==
  \A a, b \in Ctx :
    JifDone(a) /\ JifDone(b) /\ s[a] = s[b] => ret[a] = ret[b]

C6_Witness ==
  \E a, b \in Ctx :
    /\ a # b /\ JifDone(a) /\ JifDone(b)
    /\ s[a] = s[b] /\ ret[a] = ret[b] /\ ret[a] # Zero64

(***************************************************************************)
(* C7.  Error taxonomy: bpf_ktime_get_sec() never fails (its divisor is a  *)
(* nonzero constant), and the only result that can differ from the         *)
(* mathematical value is that of bpf_sec_to_jiffies, and only when         *)
(* s * KERNEL_HZ exceeds the unsigned 64-bit range.                        *)
(***************************************************************************)
C7_OnlyOverflowBeyond64 ==
  /\ ToNat(NSEC_PER_SEC) # 0
  /\ \A c \in Ctx :
       /\ SecDone(c) => IsFloorSeconds(t[c], ret[c])
       /\ JifDone(c) /\ ~NatEq(ret[c], MathProduct(c))
            => ~Fits64(MathProduct(c))

C9_OneClockRead ==
  [][\A c \in Ctx :
       pc'[c] # pc[c] =>
         /\ clock' = clock /\ KERNEL_HZ' = KERNEL_HZ
         /\ \A d \in Ctx \ {c} :
              /\ pc'[d] = pc[d] /\ s'[d] = s[d] /\ t'[d] = t[d]
              /\ __x'[d] = __x[d] /\ ret'[d] = ret[d]
              /\ reads'[d] = reads[d] /\ evals'[d] = evals[d]
         /\ pc'[c] = "sec_ret" =>
              reads'[c] = 1 /\ evals'[c] = 0 /\ t'[c] = clock
         /\ pc'[c] = "sec_done" =>
              reads'[c] = 1 /\ evals'[c] = 0 /\ t'[c] = t[c]
         /\ pc'[c] \in {"jif_ret", "jif_done"} =>
              reads'[c] = 0 /\ evals'[c] = 1]_vars

C9_Witness ==
  \E a, b \in Ctx :
    /\ SecDone(a) /\ reads[a] = 1 /\ evals[a] = 0
    /\ JifDone(b) /\ reads[b] = 0 /\ evals[b] = 1

(***************************************************************************)
(* C10.  Width of the multiplication: the product is formed in the common  *)
(* type of the argument and KERNEL_HZ and only then widened.  With a       *)
(* 64-bit argument or a 64-bit KERNEL_HZ the result is                     *)
(* (s * KERNEL_HZ) mod 2^64; with both 32 bits wide it is                  *)
(* (s * KERNEL_HZ) mod 2^32, zero-extended.                                *)
(***************************************************************************)
C10_CommonTypeWidth ==
  \A c \in Ctx :
    JifDone(c) =>
      /\ s[c].w = W64 \/ KERNEL_HZ.w = W64 =>
           ret[c] = NatMod(MathProduct(c), 8)
      /\ s[c].w = W32 /\ KERNEL_HZ.w = W32 =>
           NatEq(ret[c], NatMod(MathProduct(c), 4))

C10_Witness ==
  \E c \in Ctx :
    /\ JifDone(c) /\ s[c] = [val |-> Limbs(20000000, W32), w |-> W32]
    /\ KERNEL_HZ = [n |-> 250, w |-> W32]
    /\ ret[c] = Limbs(705032704, W64)
    /\ Fits64(MathProduct(c))

====
